---- MODULE Spec2Model ----
(***************************************************************************)
(* State machine of the App component of the photo editor: the edit        *)
(* history (history / historyIndex), the single-image generation requests  *)
(* and the batch run, as React state plus the promises that are in flight. *)
(*                                                                         *)
(* A callback created by useCallback reads the state of the render it was  *)
(* created in.  A user event runs the callback of the latest render, so it *)
(* reads the current state.  The part of an async callback after its await *)
(* still reads the state of the render in which the callback was invoked:  *)
(* a request in flight therefore carries the history and historyIndex that *)
(* addImageToHistory closed over when the request was submitted.           *)
(*                                                                         *)
(* The comparison slider of the editor and the gateway's classification of *)
(* a model response (handleApiResponse) are modelled next to it, each with *)
(* a specification of its own.                                             *)
(***************************************************************************)
EXTENDS Integers, Sequences, FiniteSets, TLC

VARIABLES
  history,                    \* File[]: the versions, as file identities
  historyIndex,               \* 0-based cursor, -1 when there is no image
  prompt,                     \* text of the retouch prompt
  editHotspot,                \* source-space hotspot or NoHotspot
  displayHotspot,             \* display-space hotspot or NoHotspot
  activeTab,                  \* editor tab
  completedCrop,              \* TRUE when a crop selection is completed
  isCompareModeActive,
  batchImages,                \* File[]: batch inputs
  processedBatchImages,       \* (File | null)[]: batch outputs
  processingProgress,         \* <<processed, total>> or NoProgress
  isBatchProcessingComplete,
  viewMode,
  isLoading,
  error,                      \* NoError or the message
  requests,                   \* single-image / whisk promises in flight
  batchRuns,                  \* handleBatchApply invocations in flight
  compareSliderPosition,      \* JavaScript number, 50 at construction
  isDraggingComparer,
  response,                   \* GenerateContentResponse handed to the gateway
  context,                    \* the gateway call's context string
  apiResult,                  \* what handleApiResponse returned or threw
  archive,                    \* the zip of handleDownloadAll and its fate
  uploaderFile,               \* WhiskPanel's subjectFile, sceneFile, styleFile
  isDraggingOver,             \* each ImageUploader's drag highlight
  imageUrl,                   \* BackdropPanel: text of the URL input
  isFetchingUrl,              \* BackdropPanel: a URL load is running
  urlError,                   \* BackdropPanel: NoError or the message
  urlFetches                  \* BackdropPanel: fetches in flight

vars == <<history, historyIndex, prompt, editHotspot, displayHotspot,
          activeTab, completedCrop, isCompareModeActive, batchImages,
          processedBatchImages, processingProgress,
          isBatchProcessingComplete, viewMode, isLoading, error, requests,
          batchRuns, compareSliderPosition, isDraggingComparer, response,
          context, apiResult, archive, uploaderFile, isDraggingOver,
          imageUrl, isFetchingUrl, urlError, urlFetches>>

editorVars == <<history, historyIndex, prompt, editHotspot, displayHotspot,
                activeTab, completedCrop, isCompareModeActive>>

batchVars == <<batchImages, processedBatchImages, processingProgress,
               isBatchProcessingComplete>>

comparerVars == <<compareSliderPosition, isDraggingComparer>>

gatewayVars == <<response, context, apiResult>>

uploaderVars == <<uploaderFile, isDraggingOver>>

\* BackdropPanel's own state; its backgroundFile is the fourth uploader's.
backdropVars == <<imageUrl, isFetchingUrl, urlError, urlFetches>>

\* State outside the App component's hooks that its handlers leave alone.
panelVars == <<archive, uploaderVars, backdropVars>>

(***************************************************************************)
(* Bounds of the model.                                                    *)
(***************************************************************************)
\* File identities available to the single-image editor at one time.
MaxFiles == 3
\* Largest number of files in one batch upload.
MaxBatch == 2
\* Largest clientX of a pointer event, in the pixel grid of the container.
MaxPointerX == 6
\* Largest number of parts in the content of a response candidate.
MaxParts == 2

(***************************************************************************)
(* Values.                                                                 *)
(***************************************************************************)
\* null of the (File | null) slots
NoFile == <<>>
\* null of editHotspot / displayHotspot
NoHotspot == <<>>
\* null of error
NoError == <<>>
\* null of processingProgress
NoProgress == <<>>

Tabs == {"retouch", "backdrop", "adjust", "filters", "crop"}

\* A JavaScript number: a finite value, an infinity (sign 1 or -1), or NaN.
Finite(n) == <<"finite", n>>
Infinity(sign) == <<"Infinity", sign>>
NaN == <<"NaN", 0>>

\* No zip has been started.
NoArchive == [entries |-> {}, state |-> "none"]

\* The three ImageUploader instances of the whisk view.
UploaderSlots == {"subject", "scene", "style"}

\* The ImageUploader instance of BackdropPanel.
BackgroundSlot == "background"

\* Before any gateway call: no response, no context, nothing returned.
NoResponse == <<>>
NoContext == ""
NoResult == <<>>

\* A selection of exactly one file is a single-image upload; a batch upload
\* holds more files than that (handleFileSelect).
SingleSelection == 1

\* Pointer offsets of a click inside the rendered image, and the ratios of
\* natural to rendered size of that image.
ClickOffsets == {<<1, 2>>}
ImageScales == {2}

\* Texts of the retouch prompt: empty, blank, and a description.
Prompts == {"", " ", "make sky blue"}

\* String.prototype.trim on those texts.
Trim(p) ==
  CASE p = " " -> ""
    [] p = " Sorry, I cannot do that. " -> "Sorry, I cannot do that."
    [] OTHER -> p

\* The operations that send the current image to the gateway.
EditOps == {"generate", "filter", "adjust", "enhance", "extend", "replace"}

\* The user-facing message each handler's catch block sets: its fixed prefix.
FailureMessage(op) ==
  CASE op = "generate" -> <<"Failed to generate the image.">>
    [] op = "filter" -> <<"Failed to apply the filter.">>
    [] op = "adjust" -> <<"Failed to apply the adjustment.">>
    [] op = "enhance" -> <<"Failed to enhance image.">>
    [] op = "extend" -> <<"Failed to extend backdrop.">>
    [] op = "replace" -> <<"Failed to replace backdrop.">>
    [] op = "whisk" -> <<"Failed to whisk images.">>

(***************************************************************************)
(* Derived values of a render.                                             *)
(***************************************************************************)
\* history[historyIndex] ?? null is a File
HasCurrentImage == historyIndex >= 0 /\ historyIndex < Len(history)

\* history[historyIndex] ?? null
currentImage == IF HasCurrentImage THEN history[historyIndex + 1] ELSE NoFile

\* history[0] ?? null
originalImage == IF Len(history) > 0 THEN history[1] ELSE NoFile

canUndo == historyIndex > 0
canRedo == historyIndex < Len(history) - 1

\* history.slice(0, historyIndex + 1) of the closed-over state, then push.
SliceTo(h, i) == SubSeq(h, 1, IF i + 1 <= Len(h) THEN i + 1 ELSE Len(h))
addImageToHistoryResult(h, i, f) == Append(SliceTo(h, i), f)

(***************************************************************************)
(* File identities.  Every File object the program creates or receives is  *)
(* a new object; the model names it by the smallest identity above every   *)
(* identity a live reference (the history, a closed-over history) holds.   *)
(***************************************************************************)
Range(s) == {s[i] : i \in 1..Len(s)}

LiveFiles ==
  Range(history) \cup UNION {Range(r.history) : r \in requests}

FreeFiles == {f \in 1..MaxFiles : \A g \in LiveFiles : g < f}

NewFile == CHOOSE f \in FreeFiles : \A g \in FreeFiles : f <= g

LiveBatchFiles ==
  Range(batchImages) \cup UNION {Range(r.images) : r \in batchRuns}

FreeBatchFiles == (1..(2 * MaxBatch)) \ LiveBatchFiles

\* The n smallest free identities, in increasing order.
RECURSIVE TakeFree(_, _)
TakeFree(free, n) ==
  IF n = 0 \/ free = {} THEN <<>>
  ELSE LET f == CHOOSE x \in free : \A y \in free : x <= y
       IN <<f>> \o TakeFree(free \ {f}, n - 1)

(***************************************************************************)
(* What the screen offers (renderContent).                                 *)
(***************************************************************************)
\* The error banner replaces the whole view outside the batch view.
ErrorScreen == error # NoError /\ viewMode # "batch"

\* The start screen: viewMode 'start', or the editor fallback without image.
StartScreenShown ==
  /\ ~ErrorScreen
  /\ \/ viewMode = "start"
     \/ viewMode = "editor" /\ ~HasCurrentImage

EditorShown == ~ErrorScreen /\ viewMode = "editor" /\ HasCurrentImage

WhiskShown == ~ErrorScreen /\ viewMode = "whisk"

BatchShown == viewMode = "batch"

\* The tab's panel is rendered only outside compare mode.
PanelShown(tab) == EditorShown /\ ~isCompareModeActive /\ activeTab = tab

\* The continuation of a batch run whose invocations have all settled runs
\* before the next event is dispatched.
AllSettled(run) == \A i \in DOMAIN run.outcome : run.outcome[i] # "pending"
ContinuationPending == \E run \in batchRuns : AllSettled(run)
EventLoopFree == ~ContinuationPending

AppInit ==
  /\ history = <<>>
  /\ historyIndex = -1
  /\ prompt = ""
  /\ editHotspot = NoHotspot
  /\ displayHotspot = NoHotspot
  /\ activeTab = "retouch"
  /\ completedCrop = FALSE
  /\ isCompareModeActive = FALSE
  /\ batchImages = <<>>
  /\ processedBatchImages = <<>>
  /\ processingProgress = NoProgress
  /\ isBatchProcessingComplete = FALSE
  /\ viewMode = "start"
  /\ isLoading = FALSE
  /\ error = NoError
  /\ requests = {}
  /\ batchRuns = {}
  /\ compareSliderPosition = Finite(50)
  /\ isDraggingComparer = FALSE
  /\ archive = NoArchive
  /\ uploaderFile = [slot \in UploaderSlots \cup {BackgroundSlot} |-> NoFile]
  /\ isDraggingOver = [slot \in UploaderSlots \cup {BackgroundSlot} |-> FALSE]
  /\ imageUrl = ""
  /\ isFetchingUrl = FALSE
  /\ urlError = NoError
  /\ urlFetches = {}

Init ==
  /\ AppInit
  /\ response = NoResponse
  /\ context = NoContext
  /\ apiResult = NoResult

(***************************************************************************)
(* Handlers of the single-image editor.                                    *)
(***************************************************************************)
handleImageUpload ==
  /\ EventLoopFree
  /\ StartScreenShown
  /\ FreeFiles # {}
  /\ error' = NoError
  /\ history' = <<NewFile>>
  /\ historyIndex' = 0
  /\ editHotspot' = NoHotspot
  /\ displayHotspot' = NoHotspot
  /\ activeTab' = "retouch"
  /\ completedCrop' = FALSE
  /\ viewMode' = "editor"
  /\ isCompareModeActive' = FALSE
  /\ UNCHANGED <<prompt, batchVars, isLoading, requests, batchRuns>>
  /\ UNCHANGED <<comparerVars, gatewayVars, panelVars>>

\* The click handler of the displayed image: offset -> display hotspot,
\* offset scaled by natural/client size and rounded -> edit hotspot.
handleImageClick ==
  /\ EventLoopFree
  /\ EditorShown
  /\ ~isLoading                          \* the spinner overlay covers the image
  /\ ~(activeTab = "crop" /\ ~isCompareModeActive)   \* imageDisplay rendered
  /\ ~isCompareModeActive                \* onClick is attached
  /\ \E off \in ClickOffsets, scale \in ImageScales :
       IF activeTab # "retouch" \/ isCompareModeActive
       THEN UNCHANGED <<editHotspot, displayHotspot>>
       ELSE /\ displayHotspot' = off
            /\ editHotspot' = <<off[1] * scale, off[2] * scale>>
  /\ UNCHANGED <<history, historyIndex, prompt, activeTab, completedCrop,
                 isCompareModeActive, batchVars, viewMode, isLoading, error,
                 requests, batchRuns>>
  /\ UNCHANGED <<comparerVars, gatewayVars, panelVars>>

\* onChange of the prompt input (disabled while loading or without hotspot).
setPrompt ==
  /\ EventLoopFree
  /\ PanelShown("retouch")
  /\ ~isLoading /\ editHotspot # NoHotspot
  /\ \E p \in Prompts : p # prompt /\ prompt' = p
  /\ UNCHANGED <<history, historyIndex, editHotspot, displayHotspot,
                 activeTab, completedCrop, isCompareModeActive, batchVars,
                 viewMode, isLoading, error, requests, batchRuns>>
  /\ UNCHANGED <<comparerVars, gatewayVars, panelVars>>

\* The tab bar (disabled in compare mode).
setActiveTab ==
  /\ EventLoopFree
  /\ EditorShown
  /\ ~isCompareModeActive
  /\ \E tab \in Tabs : tab # activeTab /\ activeTab' = tab
  /\ UNCHANGED <<history, historyIndex, prompt, editHotspot, displayHotspot,
                 completedCrop, isCompareModeActive, batchVars, viewMode,
                 isLoading, error, requests, batchRuns>>
  /\ UNCHANGED <<comparerVars, gatewayVars, panelVars>>

\* ReactCrop's onComplete with a selection of positive width.
setCompletedCrop ==
  /\ EventLoopFree
  /\ EditorShown
  /\ activeTab = "crop" /\ ~isCompareModeActive
  /\ ~isLoading                          \* the spinner overlay covers the image
  /\ ~completedCrop
  /\ completedCrop' = TRUE
  /\ UNCHANGED <<history, historyIndex, prompt, editHotspot, displayHotspot,
                 activeTab, isCompareModeActive, batchVars, viewMode,
                 isLoading, error, requests, batchRuns>>
  /\ UNCHANGED <<comparerVars, gatewayVars, panelVars>>

\* The Compare button, rendered only when canUndo.  Entering compare mode
\* centres the slider.
CompareToggleKeepsPosition ==
  /\ isCompareModeActive' = ~isCompareModeActive
  /\ UNCHANGED compareSliderPosition

\* setIsCompareModeActive(prev => { if (!prev) setCompareSliderPosition(50);
\* return !prev; })
CompareToggle ==
  /\ isCompareModeActive' = ~isCompareModeActive
  /\ compareSliderPosition' =
       IF ~isCompareModeActive THEN Finite(50) ELSE compareSliderPosition

handleToggleCompareMode ==
  /\ EventLoopFree
  /\ EditorShown
  /\ canUndo
  /\ CompareToggle
  /\ UNCHANGED <<history, historyIndex, prompt, editHotspot, displayHotspot,
                 activeTab, completedCrop, batchVars, viewMode, isLoading,
                 error, requests, batchRuns, isDraggingComparer, gatewayVars, panelVars>>

\* Try Again on the error screen, Dismiss on the batch banner.
clearError ==
  /\ EventLoopFree
  /\ error # NoError
  /\ error' = NoError
  /\ UNCHANGED <<editorVars, batchVars, viewMode, isLoading, requests,
                 batchRuns>>
  /\ UNCHANGED <<comparerVars, gatewayVars, panelVars>>

(***************************************************************************)
(* Comparison slider.                                                      *)
(***************************************************************************)
\* Number arithmetic as JavaScript does it, on the values above.
IsNaN(v) == v[1] = "NaN"

Rank(v) ==
  IF v[1] = "Infinity" THEN <<v[2], 0>> ELSE <<0, v[2]>>

LessEq(a, b) ==
  \/ Rank(a)[1] < Rank(b)[1]
  \/ Rank(a)[1] = Rank(b)[1] /\ Rank(a)[2] <= Rank(b)[2]

MathMin(a, b) ==
  IF IsNaN(a) \/ IsNaN(b) THEN NaN ELSE IF LessEq(a, b) THEN a ELSE b

MathMax(a, b) ==
  IF IsNaN(a) \/ IsNaN(b) THEN NaN ELSE IF LessEq(a, b) THEN b ELSE a

\* (x / width) * 100 for integers x and width >= 0.  Division by zero gives
\* an infinity of the sign of x, and NaN for 0 / 0.  The widths of
\* ContainerRects divide 100 * x, so the finite quotient is exact.
Percent(x, width) ==
  IF width = 0
  THEN IF x = 0 THEN NaN ELSE Infinity(IF x > 0 THEN 1 ELSE -1)
  ELSE Finite((x * 100) \div width)

\* Math.max(0, Math.min(100, (x / rect.width) * 100))
ClampedPosition(x, width) ==
  MathMax(Finite(0), MathMin(Finite(100), Percent(x, width)))

\* getBoundingClientRect() of the image container: laid out, or collapsed to
\* no width.
ContainerRects == {[left |-> 1, width |-> 4], [left |-> 1, width |-> 0]}

\* clientX of a mouse event or of the first touch.
PointerXs == -1..MaxPointerX

\* imageContainerRef.current: the container is part of the editor view.
ContainerMounted == EditorShown

\* The handle is rendered in compare mode, under the loading overlay.
HandleShown == EditorShown /\ isCompareModeActive /\ ~isLoading

\* setIsDraggingComparer(true)
StartDragging ==
  /\ EventLoopFree
  /\ HandleShown
  /\ isDraggingComparer' = TRUE
  /\ UNCHANGED <<editorVars, batchVars, viewMode, isLoading, error, requests,
                 batchRuns, compareSliderPosition, gatewayVars, panelVars>>

handleComparerMouseDown == StartDragging
handleComparerTouchStart == StartDragging

\* mouseup / touchend on the window; the listeners are registered by the
\* effect while isDraggingComparer.
handleComparerActionEnd ==
  /\ EventLoopFree
  /\ isDraggingComparer
  /\ isDraggingComparer' = FALSE
  /\ UNCHANGED <<editorVars, batchVars, viewMode, isLoading, error, requests,
                 batchRuns, compareSliderPosition, gatewayVars, panelVars>>

\* The guard of handleComparerActionMove left out.
MoveUnguarded(clientX) ==
  \E rect \in ContainerRects :
    compareSliderPosition' = ClampedPosition(clientX - rect.left, rect.width)

MoveEffect(clientX) ==
  IF ~isDraggingComparer \/ ~ContainerMounted
  THEN UNCHANGED compareSliderPosition
  ELSE \E rect \in ContainerRects :
         compareSliderPosition' =
           ClampedPosition(clientX - rect.left, rect.width)

handleComparerActionMove(clientX) ==
  /\ EventLoopFree
  /\ MoveEffect(clientX)
  /\ UNCHANGED <<editorVars, batchVars, viewMode, isLoading, error, requests,
                 batchRuns, isDraggingComparer, gatewayVars, panelVars>>

\* handleComparerActionMove(e.clientX), handleComparerActionMove(e.touches[0].clientX)
handleComparerMouseMove == \E clientX \in PointerXs : handleComparerActionMove(clientX)
handleComparerTouchMove == \E clientX \in PointerXs : handleComparerActionMove(clientX)

(***************************************************************************)
(* History navigation.  The handler, then the toolbar button that calls it.*)
(***************************************************************************)
UndoUnguarded ==
  /\ historyIndex' = historyIndex - 1
  /\ editHotspot' = NoHotspot
  /\ displayHotspot' = NoHotspot

\* Undo clearing the source-space hotspot only.
UndoKeepsDisplayHotspot ==
  IF canUndo
  THEN /\ historyIndex' = historyIndex - 1
       /\ editHotspot' = NoHotspot
       /\ UNCHANGED displayHotspot
  ELSE UNCHANGED <<historyIndex, editHotspot, displayHotspot>>

UndoEffect ==
  IF canUndo
  THEN /\ historyIndex' = historyIndex - 1
       /\ editHotspot' = NoHotspot
       /\ displayHotspot' = NoHotspot
  ELSE UNCHANGED <<historyIndex, editHotspot, displayHotspot>>

handleUndo ==
  /\ EventLoopFree
  /\ UndoEffect
  /\ UNCHANGED <<history, prompt, activeTab, completedCrop,
                 isCompareModeActive, batchVars, viewMode, isLoading, error,
                 requests, batchRuns>>
  /\ UNCHANGED <<comparerVars, gatewayVars, panelVars>>

\* Redo jumping to the newest version.
RedoToLast ==
  IF canRedo
  THEN /\ historyIndex' = Len(history) - 1
       /\ editHotspot' = NoHotspot
       /\ displayHotspot' = NoHotspot
  ELSE UNCHANGED <<historyIndex, editHotspot, displayHotspot>>

RedoEffect ==
  IF canRedo
  THEN /\ historyIndex' = historyIndex + 1
       /\ editHotspot' = NoHotspot
       /\ displayHotspot' = NoHotspot
  ELSE UNCHANGED <<historyIndex, editHotspot, displayHotspot>>

handleRedo ==
  /\ EventLoopFree
  /\ RedoEffect
  /\ UNCHANGED <<history, prompt, activeTab, completedCrop,
                 isCompareModeActive, batchVars, viewMode, isLoading, error,
                 requests, batchRuns>>
  /\ UNCHANGED <<comparerVars, gatewayVars, panelVars>>

ResetTruncating ==
  IF Len(history) > 0
  THEN /\ historyIndex' = 0
       /\ history' = SubSeq(history, 1, 1)
       /\ error' = NoError
       /\ editHotspot' = NoHotspot
       /\ displayHotspot' = NoHotspot
       /\ isCompareModeActive' = FALSE
  ELSE UNCHANGED <<history, historyIndex, error, editHotspot, displayHotspot,
                   isCompareModeActive>>

ResetEffect ==
  IF Len(history) > 0
  THEN /\ historyIndex' = 0
       /\ history' = history
       /\ error' = NoError
       /\ editHotspot' = NoHotspot
       /\ displayHotspot' = NoHotspot
       /\ isCompareModeActive' = FALSE
  ELSE UNCHANGED <<history, historyIndex, error, editHotspot, displayHotspot,
                   isCompareModeActive>>

handleReset ==
  /\ EventLoopFree
  /\ ResetEffect
  /\ UNCHANGED <<prompt, activeTab, completedCrop, batchVars, viewMode,
                 isLoading, requests, batchRuns>>
  /\ UNCHANGED <<comparerVars, gatewayVars, panelVars>>

\* An Undo button that compare mode does not disable.
UndoButtonEnabledInCompare == EditorShown /\ canUndo

\* disabled={!canUndo || isCompareModeActive}
UndoButtonEnabled == EditorShown /\ canUndo /\ ~isCompareModeActive
\* disabled={!canRedo || isCompareModeActive}
RedoButtonEnabled == EditorShown /\ canRedo /\ ~isCompareModeActive
\* disabled={!canUndo || isCompareModeActive}
ResetButtonEnabled == EditorShown /\ canUndo /\ ~isCompareModeActive

ClickUndo == UndoButtonEnabled /\ handleUndo
ClickRedo == RedoButtonEnabled /\ handleRedo
ClickReset == ResetButtonEnabled /\ handleReset

\* setHistory([]); setHistoryIndex(-1)
ClearHistoryKeepsCursor == history' = <<>> /\ UNCHANGED historyIndex

ClearHistory == history' = <<>> /\ historyIndex' = -1

\* Upload New that also clears the loading flag.
handleUploadNewClearsLoading ==
  /\ EventLoopFree
  /\ EditorShown \/ BatchShown
  /\ ClearHistory
  /\ batchImages' = <<>>
  /\ processedBatchImages' = <<>>
  /\ isBatchProcessingComplete' = FALSE
  /\ error' = NoError
  /\ prompt' = ""
  /\ editHotspot' = NoHotspot
  /\ displayHotspot' = NoHotspot
  /\ viewMode' = "start"
  /\ isCompareModeActive' = FALSE
  /\ isLoading' = FALSE
  /\ UNCHANGED <<activeTab, completedCrop, processingProgress, requests,
                 batchRuns>>
  /\ UNCHANGED <<comparerVars, gatewayVars, panelVars>>

\* Upload New in the editor toolbar, Start Over in the batch view.
handleUploadNew ==
  /\ EventLoopFree
  /\ EditorShown \/ BatchShown
  /\ ClearHistory
  /\ batchImages' = <<>>
  /\ processedBatchImages' = <<>>
  /\ isBatchProcessingComplete' = FALSE
  /\ error' = NoError
  /\ prompt' = ""
  /\ editHotspot' = NoHotspot
  /\ displayHotspot' = NoHotspot
  /\ viewMode' = "start"
  /\ isCompareModeActive' = FALSE
  /\ UNCHANGED <<activeTab, completedCrop, processingProgress, isLoading,
                 requests, batchRuns>>
  /\ UNCHANGED <<comparerVars, gatewayVars, panelVars>>

(***************************************************************************)
(* Single-image generation requests.  The part of each handler before its  *)
(* await; the continuation is Response below.                              *)
(***************************************************************************)
\* The promise of a gateway call, with the state its continuation closed over.
Request(op) == [op |-> op, history |-> history, historyIndex |-> historyIndex]

\* setIsLoading(true); setError(null); the gateway call is issued.
Submit(op) ==
  /\ isLoading' = TRUE
  /\ error' = NoError
  /\ requests' = requests \cup {Request(op)}

Refuse(message) ==
  /\ error' = message
  /\ UNCHANGED <<isLoading, requests>>

\* The three checks made in the opposite order.
handleGenerateHotspotFirst ==
  /\ EventLoopFree
  /\ IF editHotspot = NoHotspot
     THEN Refuse(<<"Please click on the image to select an area to edit.">>)
     ELSE IF Trim(prompt) = ""
     THEN Refuse(<<"Please enter a description for your edit.">>)
     ELSE IF ~HasCurrentImage
     THEN Refuse(<<"No image loaded to edit.">>)
     ELSE Submit("generate")
  /\ UNCHANGED <<editorVars, batchVars, viewMode, batchRuns>>
  /\ UNCHANGED <<comparerVars, gatewayVars, panelVars>>

handleGenerate ==
  /\ EventLoopFree
  /\ IF ~HasCurrentImage
     THEN Refuse(<<"No image loaded to edit.">>)
     ELSE IF Trim(prompt) = ""
     THEN Refuse(<<"Please enter a description for your edit.">>)
     ELSE IF editHotspot = NoHotspot
     THEN Refuse(<<"Please click on the image to select an area to edit.">>)
     ELSE Submit("generate")
  /\ UNCHANGED <<editorVars, batchVars, viewMode, batchRuns>>
  /\ UNCHANGED <<comparerVars, gatewayVars, panelVars>>

\* handleApplyFilter, handleApplyAdjustment, handleEnhanceQuality,
\* handleExtendBackdrop, handleReplaceBackdrop share one shape.
handleEdit(op, noImage) ==
  /\ EventLoopFree
  /\ IF ~HasCurrentImage THEN Refuse(noImage) ELSE Submit(op)
  /\ UNCHANGED <<editorVars, batchVars, viewMode, batchRuns>>
  /\ UNCHANGED <<comparerVars, gatewayVars, panelVars>>

handleApplyFilter ==
  handleEdit("filter", <<"No image loaded to apply a filter to.">>)
handleApplyAdjustment ==
  handleEdit("adjust", <<"No image loaded to apply an adjustment to.">>)
handleEnhanceQuality ==
  handleEdit("enhance", <<"No image loaded to enhance.">>)
handleExtendBackdrop ==
  handleEdit("extend", <<"No image loaded to extend.">>)
handleReplaceBackdrop ==
  handleEdit("replace", <<"No image loaded for backdrop replacement.">>)

\* Generate: disabled={isLoading || !prompt.trim() || !editHotspot}
GenerateButtonEnabled ==
  /\ PanelShown("retouch")
  /\ ~isLoading /\ Trim(prompt) # "" /\ editHotspot # NoHotspot
\* AdjustmentPanel buttons that loading does not disable.
AdjustPanelEnabledWhileLoading == PanelShown("adjust")

\* AdjustmentPanel, BackdropPanel: disabled={isLoading}
AdjustPanelEnabled == PanelShown("adjust") /\ ~isLoading
BackdropPanelEnabled == PanelShown("backdrop") /\ ~isLoading
\* FilterPanel and CropPanel receive isLoading (and isCropping) the same way.
FilterPanelEnabled == PanelShown("filters") /\ ~isLoading
CropPanelEnabled == PanelShown("crop") /\ ~isLoading /\ completedCrop

ClickGenerate == GenerateButtonEnabled /\ handleGenerate
ClickApplyFilter == FilterPanelEnabled /\ handleApplyFilter
ClickApplyAdjustment == AdjustPanelEnabled /\ handleApplyAdjustment
ClickEnhance == AdjustPanelEnabled /\ handleEnhanceQuality
ClickExtend == BackdropPanelEnabled /\ handleExtendBackdrop
ClickReplace == BackdropPanelEnabled /\ handleReplaceBackdrop

\* addImageToHistory without setIsCompareModeActive(false).
addImageToHistoryKeepsCompare(h, i, newImageFile) ==
  /\ history' = addImageToHistoryResult(h, i, newImageFile)
  /\ historyIndex' = Len(addImageToHistoryResult(h, i, newImageFile)) - 1
  /\ completedCrop' = FALSE
  /\ UNCHANGED isCompareModeActive

\* addImageToHistory as the closure of the render with history h and cursor i.
addImageToHistory(h, i, newImageFile) ==
  /\ history' = addImageToHistoryResult(h, i, newImageFile)
  /\ historyIndex' = Len(addImageToHistoryResult(h, i, newImageFile)) - 1
  /\ completedCrop' = FALSE
  /\ isCompareModeActive' = FALSE

\* The crop is synchronous: it uses the current render's addImageToHistory.
handleApplyCrop ==
  /\ EventLoopFree
  /\ \E ctxOk \in BOOLEAN :
       IF ~completedCrop \/ ~EditorShown
       THEN /\ error' = <<"Please select an area to crop.">>
            /\ UNCHANGED <<history, historyIndex, completedCrop,
                           isCompareModeActive>>
       ELSE IF ~ctxOk
       THEN /\ error' = <<"Could not process the crop.">>
            /\ UNCHANGED <<history, historyIndex, completedCrop,
                           isCompareModeActive>>
       ELSE /\ FreeFiles # {}
            /\ addImageToHistory(history, historyIndex, NewFile)
            /\ UNCHANGED error
  /\ UNCHANGED <<prompt, editHotspot, displayHotspot, activeTab, batchVars,
                 viewMode, isLoading, requests, batchRuns>>
  /\ UNCHANGED <<comparerVars, gatewayVars, panelVars>>

ClickApplyCrop == CropPanelEnabled /\ handleApplyCrop

\* try-block after the await of a single-image request: the gateway returned
\* a data URL and dataURLtoFile decoded it.
EditSucceeds(r) ==
  /\ addImageToHistory(r.history, r.historyIndex, NewFile)
  /\ IF r.op = "generate"
     THEN editHotspot' = NoHotspot /\ displayHotspot' = NoHotspot
     ELSE UNCHANGED <<editHotspot, displayHotspot>>
  /\ UNCHANGED <<viewMode, error>>

\* The composite appended to the versions on screen.
WhiskAppends(r) ==
  /\ history' = Append(history, NewFile)
  /\ historyIndex' = Len(history)
  /\ viewMode' = "editor"
  /\ UNCHANGED <<editHotspot, displayHotspot, completedCrop,
                 isCompareModeActive, error>>

\* handleWhiskGenerate's try-block after the await.
WhiskSucceeds(r) ==
  /\ history' = <<NewFile>>
  /\ historyIndex' = 0
  /\ viewMode' = "editor"
  /\ UNCHANGED <<editHotspot, displayHotspot, completedCrop,
                 isCompareModeActive, error>>

\* catch-block: the gateway call rejected or the data URL did not decode.
FailureRollsBack(r) ==
  /\ error' = FailureMessage(r.op)
  /\ history' = <<>> /\ historyIndex' = -1
  /\ UNCHANGED <<editHotspot, displayHotspot, completedCrop,
                 isCompareModeActive, viewMode>>

RequestFails(r) ==
  /\ error' = FailureMessage(r.op)
  /\ UNCHANGED <<history, historyIndex, editHotspot, displayHotspot,
                 completedCrop, isCompareModeActive, viewMode>>

\* The continuation of a request: try or catch, then finally.
ResponseSuccess ==
  /\ EventLoopFree
  /\ \E r \in requests :
       /\ FreeFiles # {}
       /\ IF r.op = "whisk" THEN WhiskSucceeds(r) ELSE EditSucceeds(r)
       /\ isLoading' = FALSE
       /\ requests' = requests \ {r}
  /\ UNCHANGED <<prompt, activeTab, batchVars, batchRuns>>
  /\ UNCHANGED <<comparerVars, gatewayVars, panelVars>>

ResponseFailure ==
  /\ EventLoopFree
  /\ \E r \in requests :
       /\ RequestFails(r)
       /\ isLoading' = FALSE
       /\ requests' = requests \ {r}
  /\ UNCHANGED <<prompt, activeTab, batchVars, batchRuns>>
  /\ UNCHANGED <<comparerVars, gatewayVars, panelVars>>

(***************************************************************************)
(* Whisk view.                                                             *)
(***************************************************************************)
onSwitchToWhisk ==
  /\ EventLoopFree
  /\ StartScreenShown
  /\ viewMode' = "whisk"
  /\ UNCHANGED <<editorVars, batchVars, isLoading, error, requests,
                 batchRuns>>
  /\ UNCHANGED <<comparerVars, gatewayVars, panelVars>>

\* Back to Home: disabled={isLoading}
onBack ==
  /\ EventLoopFree
  /\ WhiskShown /\ ~isLoading
  /\ viewMode' = "start"
  /\ UNCHANGED <<editorVars, batchVars, isLoading, error, requests,
                 batchRuns>>
  /\ UNCHANGED <<comparerVars, gatewayVars, panelVars>>

handleWhiskGenerate ==
  /\ EventLoopFree
  /\ isLoading' = TRUE
  /\ error' = NoError
  /\ requests' = requests \cup
       {[op |-> "whisk", history |-> <<>>, historyIndex |-> -1]}
  /\ UNCHANGED <<editorVars, batchVars, viewMode, batchRuns>>
  /\ UNCHANGED <<comparerVars, gatewayVars, panelVars>>

\* Whisk Images: disabled={!canWhisk || isLoading}
ClickWhisk == WhiskShown /\ ~isLoading /\ handleWhiskGenerate

(***************************************************************************)
(* Batch processing.                                                       *)
(***************************************************************************)
\* A multi-file selection on the start screen.
handleBatchUpload ==
  /\ EventLoopFree
  /\ StartScreenShown
  /\ \E n \in (SingleSelection + 1)..MaxBatch :
       /\ Cardinality(FreeBatchFiles) >= n
       /\ batchImages' = TakeFree(FreeBatchFiles, n)
       /\ processedBatchImages' = [i \in 1..n |-> NoFile]
  /\ error' = NoError
  /\ isBatchProcessingComplete' = FALSE
  /\ viewMode' = "batch"
  /\ UNCHANGED <<editorVars, processingProgress, isLoading, requests,
                 batchRuns>>
  /\ UNCHANGED <<comparerVars, gatewayVars, panelVars>>

\* dataURLtoFile(result, `${type}-${index}-${image.name}`), index from 0.
OutputFile(type, i, image) == <<type, i - 1, image>>

\* handleBatchApply up to its await: every invocation of the map callback
\* has issued its gateway call.
handleBatchApply(type) ==
  /\ EventLoopFree
  /\ isLoading' = TRUE
  /\ error' = NoError
  /\ isBatchProcessingComplete' = FALSE
  /\ processingProgress' = <<0, Len(batchImages)>>
  /\ batchRuns' = batchRuns \cup
       {[images |-> batchImages, type |-> type,
         outcome |-> [i \in 1..Len(batchImages) |-> "pending"]]}
  /\ UNCHANGED <<editorVars, batchImages, processedBatchImages, viewMode,
                 requests>>
  /\ UNCHANGED <<comparerVars, gatewayVars, panelVars>>

\* BatchPanel hands isLoading to its AdjustmentPanel, whose Apply button is
\* disabled={isLoading || !activePrompt.trim()}
BatchAdjustmentPanelEnabled == BatchShown /\ ~isLoading
\* ... and to its FilterPanel, whose Apply button is disabled while loading.
BatchFilterPanelEnabled == BatchShown /\ ~isLoading

handleBatchApplyFilter ==
  BatchFilterPanelEnabled /\ handleBatchApply("filtered")
handleBatchApplyAdjustment ==
  BatchAdjustmentPanelEnabled /\ handleBatchApply("adjusted")

\* A counter set from the value of the submitting render, not accumulated.
ProgressNotAccumulated(prev) ==
  IF prev # NoProgress THEN <<1, prev[2]>> ELSE NoProgress

\* setProcessingProgress(prev => prev ? {...prev, processed + 1} : null)
ProgressStep(prev) ==
  IF prev # NoProgress THEN <<prev[1] + 1, prev[2]>> ELSE NoProgress

\* Each fulfilled invocation published to its output slot as it settles.
SettlesPublishing(outcome) ==
  /\ \E run \in batchRuns : \E i \in DOMAIN run.outcome :
       /\ run.outcome[i] = "pending"
       /\ batchRuns' = (batchRuns \ {run}) \cup
            {[run EXCEPT !.outcome[i] = outcome]}
       /\ processedBatchImages' =
            IF outcome = "ok" /\ i \in DOMAIN processedBatchImages
            THEN [processedBatchImages EXCEPT
                    ![i] = OutputFile(run.type, i, run.images[i])]
            ELSE processedBatchImages
  /\ processingProgress' = ProgressStep(processingProgress)
  /\ UNCHANGED <<editorVars, batchImages, isBatchProcessingComplete,
                 viewMode, isLoading, error, requests>>
  /\ UNCHANGED <<comparerVars, gatewayVars, panelVars>>

\* One invocation of the map callback settles: try (fulfilled) or catch
\* (counted, rethrown, rejected).
Settles(outcome) ==
  /\ \E run \in batchRuns : \E i \in DOMAIN run.outcome :
       /\ run.outcome[i] = "pending"
       /\ batchRuns' = (batchRuns \ {run}) \cup
            {[run EXCEPT !.outcome[i] = outcome]}
  /\ processingProgress' = ProgressStep(processingProgress)
  /\ UNCHANGED <<editorVars, batchImages, processedBatchImages,
                 isBatchProcessingComplete, viewMode, isLoading, error,
                 requests>>
  /\ UNCHANGED <<comparerVars, gatewayVars, panelVars>>

InvocationSucceeds == EventLoopFree /\ Settles("ok")
InvocationFails == EventLoopFree /\ Settles("failed")

\* The fulfilled values only, without a null for a rejected invocation.
BatchResultsCompacted(run) ==
  LET ok == {i \in 1..Len(run.images) : run.outcome[i] = "ok"}
      Pick[n \in 0..Len(run.images)] ==
        IF n = 0 THEN <<>>
        ELSE IF n \in ok
        THEN Append(Pick[n - 1], OutputFile(run.type, n, run.images[n]))
        ELSE Pick[n - 1]
  IN Pick[Len(run.images)]

\* The new outcomes merged into the outputs of the previous run.
BatchResultsMerged(run) ==
  [i \in 1..Len(run.images) |->
     IF run.outcome[i] = "ok"
     THEN OutputFile(run.type, i, run.images[i])
     ELSE IF i <= Len(processedBatchImages)
     THEN processedBatchImages[i] ELSE NoFile]

\* results.map(result => result.status === 'fulfilled' ? result.value : null)
BatchResults(run) ==
  [i \in 1..Len(run.images) |->
     IF run.outcome[i] = "ok"
     THEN OutputFile(run.type, i, run.images[i]) ELSE NoFile]

\* The fulfilled results counted in place of the rejected ones.
fulfilledCount(results) ==
  Cardinality({i \in 1..Len(results) : results[i] # NoFile})

\* newProcessedImages.filter(img => img === null).length
failedCount(results) ==
  Cardinality({i \in 1..Len(results) : results[i] = NoFile})

\* The statements after the await run only if the await does not throw:
\* with Promise.all in place of Promise.allSettled a rejection would skip them.
CompletionSkippedOnRejection(results) ==
  IF failedCount(results) > 0
  THEN UNCHANGED <<isLoading, isBatchProcessingComplete, processingProgress>>
  ELSE /\ isLoading' = FALSE
       /\ isBatchProcessingComplete' = TRUE
       /\ processingProgress' = NoProgress

\* setIsLoading(false); setIsBatchProcessingComplete(true);
\* setProcessingProgress(null)
Completion(results) ==
  /\ isLoading' = FALSE
  /\ isBatchProcessingComplete' = TRUE
  /\ processingProgress' = NoProgress

\* handleBatchApply after Promise.allSettled resolved.
BatchCompletes ==
  /\ \E run \in batchRuns :
       /\ AllSettled(run)
       /\ processedBatchImages' = BatchResults(run)
       /\ error' =
            IF failedCount(BatchResults(run)) > 0
            THEN <<"could not be processed", failedCount(BatchResults(run)),
                   Len(run.images)>>
            ELSE error
       /\ Completion(BatchResults(run))
       /\ batchRuns' = batchRuns \ {run}
  /\ UNCHANGED <<editorVars, batchImages, viewMode, requests>>
  /\ UNCHANGED <<comparerVars, gatewayVars, panelVars>>

(***************************************************************************)
(* Gateway: classification of a model response (handleApiResponse).        *)
(***************************************************************************)
\* An optional string that is absent.
Undefined == "undefined"

\* JavaScript truthiness of an optional string.
Truthy(str) == str # Undefined /\ str # ""

\* inlineData of a part without inline data.
NoInlineData == <<>>

\* The parts a candidate's content can hold: a text part and two images.
TextPart == [text |-> "Sorry, I cannot do that.", inlineData |-> NoInlineData]
PngPart == [text |-> Undefined, inlineData |-> <<"image/png", "iVBORw0KGgo">>]
JpegPart == [text |-> Undefined, inlineData |-> <<"image/jpeg", "/9j/4AAQ">>]
Parts == {TextPart, PngPart, JpegPart}

\* content.parts of a candidate; a candidate without content or without
\* parts behaves as one whose parts are empty.
PartLists == UNION {[1..n -> Parts] : n \in 0..MaxParts}

FinishReasons == {Undefined, "STOP", "SAFETY", "MAX_TOKENS"}

Candidates == [parts : PartLists, finishReason : FinishReasons]

\* A candidate after the first one.
LaterCandidate == [parts |-> <<JpegPart>>, finishReason |-> "STOP"]

\* response.candidates; a response without candidates behaves as one whose
\* candidates are empty.  Only candidates[0] varies.
CandidateLists ==
  {<<>>} \cup {<<c>> : c \in Candidates}
         \cup {<<c, LaterCandidate>> : c \in Candidates}

\* response.promptFeedback; a response without promptFeedback behaves as one
\* whose blockReason is absent.
PromptFeedbacks ==
  [blockReason : {Undefined, "SAFETY"},
   blockReasonMessage : {Undefined, "Prompt was flagged."}]

\* response.text
Texts == {Undefined, "", " ", " Sorry, I cannot do that. "}

Responses ==
  [promptFeedback : PromptFeedbacks, candidates : CandidateLists,
   text : Texts]

Contexts == {"edit", "filter", "adjustment", "whisk", "backdrop extension",
             "backdrop replacement", "enhancement"}

\* What a call produces: a returned value or a thrown Error's message.
Return(value) == <<"return", value>>
Throw(message) == <<"throw", message>>

\* The block check skipped when the response carries an image.
BlockedUnlessImage(r) ==
  /\ Truthy(r.promptFeedback.blockReason)
  /\ \/ Len(r.candidates) = 0
     \/ \A i \in 1..Len(r.candidates[1].parts) :
          r.candidates[1].parts[i].inlineData = NoInlineData

\* response.promptFeedback?.blockReason
Blocked(r) == Truthy(r.promptFeedback.blockReason)

\* `Request was blocked. Reason: ${blockReason}. ${blockReasonMessage || ''}`
BlockedMessage(r) ==
  <<"Request was blocked. Reason: ", r.promptFeedback.blockReason, ". ",
    IF Truthy(r.promptFeedback.blockReasonMessage)
    THEN r.promptFeedback.blockReasonMessage ELSE "">>

\* response.candidates?.[0]?.content?.parts
FirstParts(r) ==
  IF Len(r.candidates) = 0 THEN <<>> ELSE r.candidates[1].parts

\* Indices of the parts with inline data.
InlineIndices(r) ==
  {i \in 1..Len(FirstParts(r)) : FirstParts(r)[i].inlineData # NoInlineData}

\* An image part accepted only from a candidate that finished normally.
HasImagePartOnStop(r) ==
  /\ InlineIndices(r) # {}
  /\ r.candidates[1].finishReason \in {Undefined, "STOP"}

\* parts.find(part => part.inlineData) found a part.
HasImagePart(r) == InlineIndices(r) # {}

\* parts.find(part => part.inlineData): the first such part.
imagePartFromResponse(r) ==
  FirstParts(r)[CHOOSE i \in InlineIndices(r) :
                  \A j \in InlineIndices(r) : i <= j]

\* `data:${mimeType};base64,${data}`
DataUrl(part) ==
  <<"data:", part.inlineData[1], ";base64,", part.inlineData[2]>>

\* response.candidates?.[0]?.finishReason
finishReason(r) ==
  IF Len(r.candidates) = 0 THEN Undefined ELSE r.candidates[1].finishReason

\* Every present finish reason taken as abnormal.
AbnormalStopOnAnyReason(r) == Truthy(finishReason(r))

\* finishReason && finishReason !== 'STOP'
AbnormalStop(r) == Truthy(finishReason(r)) /\ finishReason(r) # "STOP"

AbnormalStopMessage(r, ctx) ==
  <<"Image generation for ", ctx, " stopped unexpectedly. Reason: ",
    finishReason(r), ". This often relates to safety settings.">>

\* response.text?.trim()
textFeedback(r) == IF r.text = Undefined THEN Undefined ELSE Trim(r.text)

NoImageMessage(r, ctx) ==
  <<"The AI model did not return an image for the ", ctx, ". ">> \o
  (IF Truthy(textFeedback(r))
   THEN <<"The model responded with text: ", textFeedback(r)>>
   ELSE <<"This can happen due to safety filters or if the request is too complex. Please try rephrasing your prompt to be more direct.">>)

\* handleApiResponse(response, context) as a function of its arguments.
ApiResult(r, ctx) ==
  IF Blocked(r) THEN Throw(BlockedMessage(r))
  ELSE IF HasImagePart(r) THEN Return(DataUrl(imagePartFromResponse(r)))
  ELSE IF AbnormalStop(r) THEN Throw(AbnormalStopMessage(r, ctx))
  ELSE Throw(NoImageMessage(r, ctx))

\* A gateway function received the model's response and its context.
GatewayInit ==
  /\ AppInit
  /\ response \in Responses
  /\ context \in Contexts
  /\ apiResult = NoResult

\* return handleApiResponse(response, context)
handleApiResponse ==
  /\ apiResult = NoResult
  /\ apiResult' = ApiResult(response, context)
  /\ UNCHANGED <<editorVars, batchVars, viewMode, isLoading, error, requests,
                 batchRuns, comparerVars, response, context,
                 panelVars>>

(***************************************************************************)
(* Batch download (handleDownloadAll).                                     *)
(***************************************************************************)
\* The null slots entered into the zip as well.
ZipEntriesWithNulls(images) == {images[i] : i \in 1..Len(images)}

\* zip.file(file.name, file) for every non-null slot: the entries of the
\* zip, by name.  An output's name is its identity (type, index, input).
ZipEntries(images) == {images[i] : i \in 1..Len(images)} \ {NoFile}

\* handleDownloadAll up to its await.  One zip is generated at a time.
handleDownloadAll ==
  /\ EventLoopFree
  /\ archive.state # "generating"
  /\ IF ZipEntries(processedBatchImages) = {}
     THEN /\ error' = <<"No processed images to download.">>
          /\ UNCHANGED archive
     ELSE /\ archive' = [entries |-> ZipEntries(processedBatchImages),
                         state |-> "generating"]
          /\ UNCHANGED error
  /\ UNCHANGED <<editorVars, batchVars, viewMode, isLoading, requests,
                 batchRuns, comparerVars, gatewayVars, uploaderVars,
                 backdropVars>>

\* zip.generateAsync resolved: the link is clicked and the archive saved.
zipGenerated ==
  /\ EventLoopFree
  /\ archive.state = "generating"
  /\ archive' = [archive EXCEPT !.state = "saved"]
  /\ UNCHANGED <<editorVars, batchVars, viewMode, isLoading, error, requests,
                 batchRuns, comparerVars, gatewayVars, uploaderVars,
                 backdropVars>>

\* zip.generateAsync rejected: the catch block.
zipFails ==
  /\ EventLoopFree
  /\ archive.state = "generating"
  /\ archive' = NoArchive
  /\ error' = <<"Could not create zip file.">>
  /\ UNCHANGED <<editorVars, batchVars, viewMode, isLoading, requests,
                 batchRuns, comparerVars, gatewayVars, uploaderVars,
                 backdropVars>>

(***************************************************************************)
(* ImageUploader, as WhiskPanel instantiates it three times.               *)
(***************************************************************************)
\* File.type as the sequence of its characters.
ImagePrefix == <<"i", "m", "a", "g", "e", "/">>
ImagePng == ImagePrefix \o <<"p", "n", "g">>
ImageJpeg == ImagePrefix \o <<"j", "p", "e", "g">>
ImageWord == <<"i", "m", "a", "g", "e">>
TextPlain == <<"t", "e", "x", "t", "/", "p", "l", "a", "i", "n">>
XImagePng == <<"x", "-">> \o ImagePng
UnknownType == <<>>

MimeTypes ==
  {ImagePng, ImageJpeg, ImagePrefix, ImageWord, TextPlain, XImagePng,
   UnknownType}

\* The files a picker or a drop can hand over.
OfferedFiles == [name : {"photo"}, type : MimeTypes]

\* files?.[0] ?? null, dataTransfer.files[0]: no file, or the first file.
FileChoices == {NoFile} \cup {<<f>> : f \in OfferedFiles}

\* The prefix found anywhere in the string.
Includes(str, prefix) ==
  \E k \in 1..Len(str) :
    /\ k + Len(prefix) - 1 <= Len(str)
    /\ SubSeq(str, k, k + Len(prefix) - 1) = prefix

\* String.prototype.startsWith
StartsWith(str, prefix) ==
  /\ Len(str) >= Len(prefix)
  /\ SubSeq(str, 1, Len(prefix)) = prefix

\* An uploader is on screen with the panel that renders it.
UploaderMounted(slot) ==
  IF slot = BackgroundSlot THEN PanelShown("backdrop") ELSE WhiskShown

\* ImageUploader.handleFileSelect; onFileChange is the slot's setter.
UploaderFileSelect(slot, selectedFile) ==
  IF selectedFile # NoFile /\ StartsWith(selectedFile[1].type, ImagePrefix)
  THEN uploaderFile' = [uploaderFile EXCEPT ![slot] = selectedFile]
  ELSE UNCHANGED uploaderFile

\* onChange of the hidden file input.
onInputChange(slot, selectedFile) ==
  /\ UploaderMounted(slot)
  /\ UploaderFileSelect(slot, selectedFile)
  /\ UNCHANGED <<editorVars, batchVars, viewMode, isLoading, error, requests,
                 batchRuns, comparerVars, gatewayVars, backdropVars, archive,
                 isDraggingOver>>

onDragOver(slot) ==
  /\ UploaderMounted(slot)
  /\ isDraggingOver' = [isDraggingOver EXCEPT ![slot] = TRUE]
  /\ UNCHANGED <<editorVars, batchVars, viewMode, isLoading, error, requests,
                 batchRuns, comparerVars, gatewayVars, backdropVars, archive, uploaderFile>>

onDragLeave(slot) ==
  /\ UploaderMounted(slot)
  /\ isDraggingOver' = [isDraggingOver EXCEPT ![slot] = FALSE]
  /\ UNCHANGED <<editorVars, batchVars, viewMode, isLoading, error, requests,
                 batchRuns, comparerVars, gatewayVars, backdropVars, archive, uploaderFile>>

onDrop(slot, droppedFile) ==
  /\ UploaderMounted(slot)
  /\ isDraggingOver' = [isDraggingOver EXCEPT ![slot] = FALSE]
  /\ UploaderFileSelect(slot, droppedFile)
  /\ UNCHANGED <<editorVars, batchVars, viewMode, isLoading, error, requests,
                 batchRuns, comparerVars, gatewayVars, backdropVars, archive>>

\* The clear button, rendered over the preview of a selected file.
handleClear(slot) ==
  /\ UploaderMounted(slot)
  /\ uploaderFile[slot] # NoFile
  /\ uploaderFile' = [uploaderFile EXCEPT ![slot] = NoFile]
  /\ UNCHANGED <<editorVars, batchVars, viewMode, isLoading, error, requests,
                 batchRuns, comparerVars, gatewayVars, backdropVars, archive,
                 isDraggingOver>>

(***************************************************************************)
(* BackdropPanel: a background image loaded from a URL.                    *)
(***************************************************************************)
\* BackdropPanel's backgroundFile, the file of its ImageUploader.
backgroundFile == uploaderFile[BackgroundSlot]

\* Texts of the URL input: empty, blank, two absolute URLs (the second has
\* no file name in its path) and a relative reference.
ImageUrls ==
  {"", " ", "https://cdn.example/bg.png", "https://cdn.example/", "bg.png"}

\* new URL(imageUrl) does not throw: the text is an absolute URL.
UrlParses(url) ==
  url \in {"https://cdn.example/bg.png", "https://cdn.example/"}

\* new URL(imageUrl).pathname
Pathname(url) ==
  CASE url = "https://cdn.example/bg.png" -> "/bg.png"
    [] url = "https://cdn.example/" -> "/"

\* urlPath.substring(urlPath.lastIndexOf('/') + 1) || 'background-from-url.png'
FileNameFromUrl(url) ==
  LET tail == CASE Pathname(url) = "/bg.png" -> "bg.png"
                [] Pathname(url) = "/" -> ""
  IN IF tail = "" THEN "background-from-url.png" ELSE tail

\* What fetch and response.blob() can come to: fetch rejects, the status is
\* not OK, blob() rejects, or a blob of some type arrives.
FetchOutcomes ==
  [kind : {"rejected", "status", "blobRejected"}, type : {UnknownType}]
    \cup [kind : {"blob"}, type : {ImagePng, TextPlain, UnknownType}]

\* The message of the error thrown inside the try block, "" when none is.
ThrownMessage(url, outcome) ==
  CASE outcome.kind = "rejected" -> "Failed to fetch"
    [] outcome.kind = "status" ->
         "Failed to fetch image. Server responded with status: 404"
    [] outcome.kind = "blobRejected" -> "The operation was aborted."
    [] outcome.kind = "blob" /\ ~StartsWith(outcome.type, ImagePrefix) ->
         "The URL did not point to a valid image file (e.g., JPEG, PNG)."
    [] outcome.kind = "blob" /\ StartsWith(outcome.type, ImagePrefix)
         /\ ~UrlParses(url) -> "Invalid URL"
    [] OTHER -> ""

\* The catch block's text: its fixed prefix and the thrown message.
UrlErrorOf(message) == <<"Could not load image. Error: ", message>>

\* onChange of the URL input: disabled={isLoading || isFetchingUrl}
setImageUrl ==
  /\ PanelShown("backdrop")
  /\ ~isLoading /\ ~isFetchingUrl
  /\ \E url \in ImageUrls : url # imageUrl /\ imageUrl' = url
  /\ UNCHANGED <<editorVars, batchVars, viewMode, isLoading, error, requests,
                 batchRuns, comparerVars, gatewayVars, archive, uploaderVars,
                 isFetchingUrl, urlError, urlFetches>>

\* handleLoadFromUrl up to its await.
handleLoadFromUrl ==
  /\ IF Trim(imageUrl) = ""
     THEN UNCHANGED <<uploaderFile, isFetchingUrl, urlError, urlFetches>>
     ELSE /\ isFetchingUrl' = TRUE
          /\ urlError' = NoError
          /\ uploaderFile' = [uploaderFile EXCEPT ![BackgroundSlot] = NoFile]
          /\ urlFetches' = urlFetches \cup {[url |-> imageUrl]}
  /\ UNCHANGED <<editorVars, batchVars, viewMode, isLoading, error, requests,
                 batchRuns, comparerVars, gatewayVars, archive,
                 isDraggingOver, imageUrl>>

\* Load: disabled={isLoading || isFetchingUrl || !imageUrl.trim()}
LoadButtonEnabled ==
  /\ PanelShown("backdrop")
  /\ ~isLoading /\ ~isFetchingUrl /\ Trim(imageUrl) # ""

ClickLoad == LoadButtonEnabled /\ handleLoadFromUrl

\* The rest of handleLoadFromUrl, for fetch f ending as outcome: the try
\* block to its end or to a throw, the catch block, the finally block.
fetchSettles(f, outcome) ==
  /\ PanelShown("backdrop")
  /\ f \in urlFetches
  /\ IF ThrownMessage(f.url, outcome) = ""
     THEN /\ uploaderFile' =
               [uploaderFile EXCEPT ![BackgroundSlot] =
                  <<[name |-> FileNameFromUrl(f.url), type |-> outcome.type]>>]
          /\ imageUrl' = ""
          /\ UNCHANGED urlError
     ELSE /\ urlError' = UrlErrorOf(ThrownMessage(f.url, outcome))
          /\ UNCHANGED <<uploaderFile, imageUrl>>
  /\ isFetchingUrl' = FALSE
  /\ urlFetches' = urlFetches \ {f}
  /\ UNCHANGED <<editorVars, batchVars, viewMode, isLoading, error, requests,
                 batchRuns, comparerVars, gatewayVars, archive,
                 isDraggingOver>>

\* The Backdrop tab is opened.
OpenBackdropTab == setActiveTab /\ activeTab' = "backdrop"

(***************************************************************************)
(* The program: every event the screen offers, and every continuation.     *)
(***************************************************************************)
UserEvent ==
  \/ handleImageUpload
  \/ handleBatchUpload
  \/ handleImageClick
  \/ setPrompt
  \/ setActiveTab
  \/ setCompletedCrop
  \/ handleToggleCompareMode
  \/ clearError
  \/ handleUploadNew
  \/ ClickGenerate
  \/ ClickApplyFilter
  \/ ClickApplyAdjustment
  \/ ClickEnhance
  \/ ClickExtend
  \/ ClickReplace
  \/ ClickApplyCrop
  \/ onSwitchToWhisk
  \/ onBack
  \/ ClickWhisk
  \/ handleBatchApplyFilter
  \/ handleBatchApplyAdjustment

Continuation ==
  \/ ResponseSuccess
  \/ ResponseFailure
  \/ InvocationSucceeds
  \/ InvocationFails
  \/ BatchCompletes

Next ==
  \/ UserEvent
  \/ Continuation
  \/ ClickUndo
  \/ ClickRedo
  \/ ClickReset

Spec == Init /\ [][Next]_vars

\* The history callbacks called as functions, without the toolbar's
\* disabled attributes in front of them.
NextDirect ==
  \/ UserEvent
  \/ Continuation
  \/ handleUndo
  \/ handleRedo
  \/ handleReset

SpecDirect == Init /\ [][NextDirect]_vars

\* The gateway answers every call, and a resolved promise's continuation runs.
FairSpec ==
  /\ Spec
  /\ WF_vars(ResponseSuccess \/ ResponseFailure)
  /\ WF_vars(InvocationSucceeds \/ InvocationFails)
  /\ WF_vars(BatchCompletes)

\* The application used for batch work: uploads, batch runs, Start Over and
\* the banner, in any interleaving with the invocations of a run; no
\* single-image edit is requested.
NextBatch ==
  \/ handleImageUpload
  \/ handleBatchUpload
  \/ handleUploadNew
  \/ clearError
  \/ handleBatchApplyFilter
  \/ handleBatchApplyAdjustment
  \/ InvocationSucceeds
  \/ InvocationFails
  \/ BatchCompletes

\* Every invocation settles, and a resolved promise's continuation runs.
BatchFairSpec ==
  /\ Init /\ [][NextBatch]_vars
  /\ WF_vars(InvocationSucceeds \/ InvocationFails)
  /\ WF_vars(BatchCompletes)

\* The editor with the comparison slider: one image, edits on it, compare
\* mode, and the pointer events of the slider, the move handlers called in
\* every state.
NextComparer ==
  \/ handleImageUpload
  \/ handleUploadNew
  \/ setActiveTab
  \/ ClickExtend
  \/ ResponseSuccess
  \/ ResponseFailure
  \/ clearError
  \/ handleToggleCompareMode
  \/ handleComparerMouseDown
  \/ handleComparerTouchStart
  \/ handleComparerActionEnd
  \/ handleComparerMouseMove
  \/ handleComparerTouchMove

ComparerSpec == Init /\ [][NextComparer]_vars

\* The retouch form with handleGenerate called as a function, in every state
\* and not only when the Generate button is enabled.
NextRetouch ==
  \/ handleImageUpload
  \/ handleUploadNew
  \/ handleImageClick
  \/ setPrompt
  \/ handleGenerate
  \/ ResponseSuccess
  \/ ResponseFailure
  \/ clearError
  \/ ClickUndo

RetouchSpec == Init /\ [][NextRetouch]_vars

\* Batch work with the download handler called as a function, in every
\* state and not only when the Download All button is enabled.
NextDownload ==
  \/ NextBatch
  \/ handleDownloadAll
  \/ zipGenerated
  \/ zipFails

DownloadSpec == Init /\ [][NextDownload]_vars

\* The editor and the batch view under load: one kind of single-image edit
\* and batch runs, with everything the user can do while they are pending,
\* and a gateway that answers every call.
NextLoading ==
  \/ handleImageUpload
  \/ handleBatchUpload
  \/ handleUploadNew
  \/ setActiveTab
  \/ handleToggleCompareMode
  \/ clearError
  \/ ClickEnhance
  \/ ClickUndo
  \/ ClickRedo
  \/ ClickReset
  \/ handleBatchApplyFilter
  \/ Continuation

LoadingFairSpec ==
  /\ Init /\ [][NextLoading]_vars
  /\ WF_vars(ResponseSuccess \/ ResponseFailure)
  /\ WF_vars(InvocationSucceeds \/ InvocationFails)
  /\ WF_vars(BatchCompletes)

\* The whisk view and its three uploaders.
NextUploader ==
  \/ onSwitchToWhisk
  \/ \E slot \in UploaderSlots, file \in FileChoices :
       onInputChange(slot, file)
  \/ \E slot \in UploaderSlots : onDragOver(slot)
  \/ \E slot \in UploaderSlots : onDragLeave(slot)
  \/ \E slot \in UploaderSlots, file \in FileChoices : onDrop(slot, file)
  \/ \E slot \in UploaderSlots : handleClear(slot)

UploaderSpec == Init /\ [][NextUploader]_vars

\* The Backdrop tab of the editor with its uploader and its URL loader.
NextBackdrop ==
  \/ handleImageUpload
  \/ OpenBackdropTab
  \/ setImageUrl
  \/ ClickLoad
  \/ \E f \in urlFetches, outcome \in FetchOutcomes : fetchSettles(f, outcome)
  \/ \E file \in FileChoices : onInputChange(BackgroundSlot, file)
  \/ onDragOver(BackgroundSlot)
  \/ onDragLeave(BackgroundSlot)
  \/ \E file \in FileChoices : onDrop(BackgroundSlot, file)
  \/ handleClear(BackgroundSlot)

BackdropSpec == Init /\ [][NextBackdrop]_vars

\* One call of handleApiResponse on any response of the bounded set.
GatewaySpec == GatewayInit /\ [][handleApiResponse]_vars

(***************************************************************************)
(* Steps, as the claims speak of them.                                     *)
(***************************************************************************)
\* The continuation of single-image request r ran to its end.
Answered(r) == r \in requests /\ r.op \in EditOps /\ requests' = requests \ {r}

\* A version was committed through addImageToHistory: by the try-block of a
\* single-image request, or by the crop.
EditCommitted ==
  \/ ResponseSuccess /\ \E r \in requests : Answered(r)
  \/ ClickApplyCrop /\ history' # history

\* The history request r was submitted on has been replaced (Upload New, a
\* new upload) while r was in flight.
Superseded(r) == history = <<>> \/ history[1] # r.history[1]

\* A step that seeds the history anew or empties it.
Reseeded ==
  \/ handleImageUpload
  \/ handleUploadNew
  \/ ResponseSuccess /\ \E r \in requests : r.op = "whisk" /\ r \notin requests'

\* Invocations of a batch run that have settled.
SettledOf(run) == {i \in DOMAIN run.outcome : run.outcome[i] # "pending"}

(***************************************************************************)
(* C1.  In every reachable state the cursor is -1 exactly when the history *)
(* is empty, and otherwise 0 <= historyIndex <= history.length - 1.        *)
(***************************************************************************)
C1_CursorValid ==
  /\ (historyIndex = -1) <=> (history = <<>>)
  /\ history # <<>> => 0 <= historyIndex /\ historyIndex <= Len(history) - 1

\* A response arrived after Upload New: a history is back on the start screen.
C1_Witness ==
  viewMode = "start" /\ requests = {} /\ Len(history) >= 2

(***************************************************************************)
(* C2.  A committed edit leaves the versions 0..c of the history as it is  *)
(* at that moment, c the cursor at that moment, followed by the new        *)
(* version, with the cursor on the new last index.                         *)
(***************************************************************************)
C2_AppendAtCurrentCursor ==
  [][EditCommitted =>
       /\ Len(history') = historyIndex + 2
       /\ SubSeq(history', 1, historyIndex + 1) =
            SubSeq(history, 1, historyIndex + 1)
       /\ historyIndex' = Len(history') - 1]_vars

(***************************************************************************)
(* C3.  The response to a single-image request whose history was           *)
(* superseded while it was in flight changes neither history nor           *)
(* historyIndex.                                                           *)
(***************************************************************************)
C3_StaleResponseIgnored ==
  [][\A r \in requests :
       Answered(r) /\ Superseded(r) => UNCHANGED <<history, historyIndex>>]_vars

(***************************************************************************)
(* C4.  handleUndo changes state only when historyIndex > 0 and then       *)
(* lowers the cursor by exactly 1; handleRedo only when the cursor is      *)
(* below the last index and then raises it by exactly 1; at the bounds     *)
(* nothing changes.                                                        *)
(***************************************************************************)
C4_UndoRedoBounded ==
  [][/\ handleUndo =>
          IF historyIndex > 0
          THEN historyIndex' = historyIndex - 1 /\ history' = history
          ELSE UNCHANGED vars
     /\ handleRedo =>
          IF historyIndex < Len(history) - 1
          THEN historyIndex' = historyIndex + 1 /\ history' = history
          ELSE UNCHANGED vars]_vars

\* The cursor strictly inside a history of three versions: only an undo or
\* a redo puts it there.
C4_Witness == Len(history) = 3 /\ historyIndex = 1

(***************************************************************************)
(* C5.  Once the history is seeded, the version at index 0 stays the same  *)
(* through every step that is not a new upload, a whisk composite or       *)
(* Upload New.                                                             *)
(***************************************************************************)
C5_OriginalKept ==
  [][history # <<>> /\ ~Reseeded =>
       history' # <<>> /\ history'[1] = history[1]]_vars

(***************************************************************************)
(* C6.  handleReset on a non-empty history puts the cursor on 0 and keeps  *)
(* the version sequence, so redo is possible up to the former last index;  *)
(* on an empty history it changes nothing.                                 *)
(***************************************************************************)
C6_ResetKeepsVersions ==
  [][handleReset =>
       IF Len(history) > 0
       THEN /\ historyIndex' = 0
            /\ history' = history
            /\ Len(history) > 1 => historyIndex' < Len(history') - 1
       ELSE UNCHANGED vars]_vars

\* After a reset from the last of three versions: cursor 0, redo possible.
C6_Witness ==
  /\ Len(history) = 3 /\ historyIndex = 0
  /\ canRedo /\ ~isCompareModeActive /\ error = NoError

(***************************************************************************)
(* C7.  When a single-image generation request fails, history and          *)
(* historyIndex are as they were just before the response, an error        *)
(* message is set and isLoading is false.                                  *)
(***************************************************************************)
C7_FailureKeepsHistory ==
  [][ResponseFailure /\ (\E r \in requests : Answered(r)) =>
       /\ history' = history
       /\ historyIndex' = historyIndex
       /\ error' # NoError
       /\ isLoading' = FALSE]_vars

\* A failed edit on a history of two versions, reported and no longer loading.
C7_Witness ==
  /\ \E op \in EditOps : error = FailureMessage(op)
  /\ ~isLoading /\ requests = {}
  /\ Len(history) = 2 /\ historyIndex = 1

(***************************************************************************)
(* C8.  When a batch run over N images completes, processedBatchImages has *)
(* length N and slot i holds an image iff invocation i succeeded.          *)
(***************************************************************************)
C8_BatchAligned ==
  [][\A run \in batchRuns :
       AllSettled(run) /\ run \notin batchRuns' =>
         /\ Len(processedBatchImages') = Len(run.images)
         /\ \A i \in 1..Len(run.images) :
              (processedBatchImages'[i] # NoFile) <=> (run.outcome[i] = "ok")]_vars

\* A completed run whose first invocation failed and whose last succeeded.
C8_Witness ==
  /\ isBatchProcessingComplete /\ batchRuns = {}
  /\ Len(processedBatchImages) = Len(batchImages)
  /\ Len(processedBatchImages) >= 2
  /\ processedBatchImages[1] = NoFile
  /\ processedBatchImages[Len(processedBatchImages)] # NoFile

(***************************************************************************)
(* C9.  During a batch run of N images the progress record has total = N   *)
(* and processed = the number of invocations settled so far, so            *)
(* 0 <= processed <= total, and processed = N once the last one settled.   *)
(***************************************************************************)
C9_ProgressCountsSettled ==
  \A run \in batchRuns :
    /\ processingProgress # NoProgress
    /\ processingProgress[2] = Len(run.images)
    /\ processingProgress[1] = Cardinality(SettledOf(run))
    /\ 0 <= processingProgress[1] /\ processingProgress[1] <= processingProgress[2]
    /\ AllSettled(run) => processingProgress[1] = Len(run.images)

\* The second invocation settled first, by failing; the first is pending.
C9_Witness ==
  \E run \in batchRuns :
    /\ run.outcome[1] = "pending" /\ run.outcome[2] = "failed"
    /\ processingProgress = <<1, Len(run.images)>>

\* The parts of the batch-run property: what a launch creates, what a
\* failing invocation changes, and that a pending invocation can settle.
Launched ==
  Cardinality(batchRuns') > Cardinality(batchRuns) =>
    \A run \in batchRuns' \ batchRuns :
      /\ run.images = batchImages
      /\ DOMAIN run.outcome = 1..Len(batchImages)
      /\ \A i \in DOMAIN run.outcome : run.outcome[i] = "pending"

FailureLeavesSiblings ==
  InvocationFails =>
    \E run \in batchRuns : \E i \in DOMAIN run.outcome :
      /\ run.outcome[i] = "pending"
      /\ batchRuns' = (batchRuns \ {run}) \cup
           {[run EXCEPT !.outcome[i] = "failed"]}

PendingCanSettle ==
  (\E run \in batchRuns : ~AllSettled(run)) =>
    ENABLED InvocationSucceeds /\ ENABLED InvocationFails

(***************************************************************************)
(* C10.  A batch run launches exactly one invocation per input image, all  *)
(* before any settles; a failing invocation leaves the others as they are, *)
(* still able to settle; and when all have settled the run completes with  *)
(* isLoading false and isBatchProcessingComplete true.                     *)
(***************************************************************************)
C10_BatchRunsToCompletion ==
  /\ [][Launched /\ FailureLeavesSiblings]_vars
  /\ [](PendingCanSettle)
  /\ (batchRuns # {}) ~> (~isLoading /\ isBatchProcessingComplete)

\* A run completed although one of its invocations failed.
C10_Witness ==
  /\ batchRuns = {} /\ ~isLoading /\ isBatchProcessingComplete
  /\ \E i \in 1..Len(processedBatchImages) : processedBatchImages[i] = NoFile
  /\ \E i \in 1..Len(processedBatchImages) : processedBatchImages[i] # NoFile

\* The step in which the continuation of batch run `run` runs.
Completes(run) == run \in batchRuns /\ AllSettled(run) /\ run \notin batchRuns'

\* Run `run` was started on the batch that is still the current one.
OnCurrentBatch(run) == run.images = batchImages

(***************************************************************************)
(* C11.  A batch run on the inputs of an earlier run replaces the output   *)
(* collection by the outcomes of the new run only: after it completes,     *)
(* slot i holds the file the new run produced when invocation i succeeded  *)
(* (also when the slot was null before) and null otherwise.                *)
(***************************************************************************)
C11_RerunReplacesOutputs ==
  [][\A run \in batchRuns :
       Completes(run) =>
         \A i \in 1..Len(run.images) :
           /\ run.outcome[i] = "ok" =>
                processedBatchImages'[i] =
                  OutputFile(run.type, i, run.images[i])
           /\ run.outcome[i] # "ok" => processedBatchImages'[i] = NoFile]_vars

\* A second run has settled on a batch that holds outputs of a run of the
\* other type: a slot that is null will be filled, a filled one will fail.
C11_Witness ==
  \E run \in batchRuns :
    /\ AllSettled(run) /\ OnCurrentBatch(run)
    /\ \E i, j \in 1..Len(run.images) :
         /\ processedBatchImages[i] = NoFile /\ run.outcome[i] = "ok"
         /\ processedBatchImages[j] # NoFile
         /\ processedBatchImages[j][1] # run.type
         /\ run.outcome[j] = "failed"

C13_BatchLengthsEqual == Len(batchImages) = Len(processedBatchImages)

(***************************************************************************)
(* C14.  The completion of a batch run that was superseded by Start Over   *)
(* (and possibly a new upload) changes neither the output collection, nor  *)
(* the completion flag, nor the error message.                             *)
(***************************************************************************)
C14_StaleBatchIgnored ==
  [][\A run \in batchRuns :
       Completes(run) /\ ~OnCurrentBatch(run) =>
         UNCHANGED <<processedBatchImages, isBatchProcessingComplete,
                     error>>]_vars

(***************************************************************************)
(* C15.  A slot that holds an image of an earlier run still holds an image *)
(* after a later run on the same inputs in which its invocation failed.    *)
(***************************************************************************)
C15_FailureKeepsBatchResult ==
  [][\A run \in batchRuns :
       Completes(run) /\ OnCurrentBatch(run) =>
         \A i \in 1..Len(run.images) :
           (/\ i <= Len(processedBatchImages)
            /\ processedBatchImages[i] # NoFile
            /\ run.outcome[i] = "failed")
           => processedBatchImages'[i] # NoFile]_vars

\* handleApiResponse was called on the response.
Classified == apiResult # NoResult

\* The first candidate of the response has a part with inline image data.
ImageInFirstCandidate ==
  /\ Len(response.candidates) > 0
  /\ \E i \in 1..Len(response.candidates[1].parts) :
       response.candidates[1].parts[i].inlineData # NoInlineData

\* The prompt feedback of the response names a block reason.
BlockReasonPresent ==
  response.promptFeedback.blockReason \notin {Undefined, ""}

\* The call threw the blocked-request error, the abnormal-stop error, the
\* no-image error.
ThrewBlocked ==
  /\ apiResult[1] = "throw"
  /\ apiResult[2][1] = "Request was blocked. Reason: "
  /\ apiResult[2][2] = response.promptFeedback.blockReason

ThrewAbnormalStop ==
  /\ apiResult[1] = "throw"
  /\ apiResult[2][1] = "Image generation for "
  /\ apiResult[2][4] = response.candidates[1].finishReason

ThrewNoImage ==
  /\ apiResult[1] = "throw"
  /\ apiResult[2][1] = "The AI model did not return an image for the "

\* The no-image error quotes text t.
QuotesText(t) ==
  /\ Len(apiResult[2]) = 5
  /\ apiResult[2][4] = "The model responded with text: "
  /\ apiResult[2][5] = t

\* The finish reason of the first candidate is present and is not STOP.
StoppedAbnormally ==
  /\ Len(response.candidates) > 0
  /\ response.candidates[1].finishReason \notin {Undefined, "", "STOP"}

(***************************************************************************)
(* C16.  A response with both a prompt block reason and an image part in   *)
(* its first candidate makes handleApiResponse throw the blocked-request   *)
(* error; the image is not returned.                                       *)
(***************************************************************************)
C16_BlockCheckFirst ==
  Classified /\ BlockReasonPresent /\ ImageInFirstCandidate => ThrewBlocked

\* A blocked response that carries an image, classified as blocked.
C16_Witness ==
  Classified /\ BlockReasonPresent /\ ImageInFirstCandidate /\ ThrewBlocked

(***************************************************************************)
(* C17.  A response that is not blocked and whose first candidate has an   *)
(* image part makes handleApiResponse return that image (the first part    *)
(* with inline data, as a data URL), whatever the finish reason is.        *)
(***************************************************************************)
C17_ImageBeforeFinishReason ==
  Classified /\ ~BlockReasonPresent /\ ImageInFirstCandidate =>
    LET parts == response.candidates[1].parts
        first == CHOOSE i \in 1..Len(parts) :
                   /\ parts[i].inlineData # NoInlineData
                   /\ \A j \in 1..(i - 1) : parts[j].inlineData = NoInlineData
    IN /\ apiResult[1] = "return"
       /\ apiResult[2] = <<"data:", parts[first].inlineData[1], ";base64,",
                           parts[first].inlineData[2]>>

\* An image returned from a candidate that stopped for SAFETY, the image
\* being the second part.
C17_Witness ==
  /\ Classified /\ ~BlockReasonPresent /\ ImageInFirstCandidate
  /\ response.candidates[1].finishReason = "SAFETY"
  /\ response.candidates[1].parts[1].inlineData = NoInlineData
  /\ apiResult[1] = "return"

(***************************************************************************)
(* C18, as stated.  Without block and without image part the call throws   *)
(* the abnormal-stop error iff a finish reason is present and is not STOP, *)
(* otherwise the no-image error, which includes the response text when     *)
(* that text is non-empty; it never returns.                               *)
(***************************************************************************)
C18_NoImageAsStated ==
  Classified /\ ~BlockReasonPresent /\ ~ImageInFirstCandidate =>
    /\ apiResult[1] = "throw"
    /\ ThrewAbnormalStop <=> StoppedAbnormally
    /\ ~StoppedAbnormally =>
         /\ ThrewNoImage
         /\ response.text \notin {Undefined, ""} =>
              QuotesText(Trim(response.text))

(***************************************************************************)
(* C18, amended.  Without block and without image part the call throws the *)
(* abnormal-stop error iff a finish reason is present and is not STOP,     *)
(* otherwise the no-image error, which includes the trimmed response text  *)
(* iff the text is non-empty after trimming (a whitespace-only text is     *)
(* left out like an absent one); it never returns.                         *)
(***************************************************************************)
C18_NoImageClassified ==
  Classified /\ ~BlockReasonPresent /\ ~ImageInFirstCandidate =>
    /\ apiResult[1] = "throw"
    /\ ThrewAbnormalStop <=> StoppedAbnormally
    /\ ~StoppedAbnormally =>
         /\ ThrewNoImage
         /\ IF response.text # Undefined /\ Trim(response.text) # ""
            THEN QuotesText(Trim(response.text))
            ELSE Len(apiResult[2]) = 4

\* A response that finished with STOP, without image, whose text is only
\* white space: the no-image error without quoted text.
C18_Witness ==
  /\ Classified /\ ~BlockReasonPresent /\ ~ImageInFirstCandidate
  /\ Len(response.candidates) > 0
  /\ response.candidates[1].finishReason = "STOP"
  /\ response.text = " "
  /\ ThrewNoImage /\ Len(apiResult[2]) = 4

(***************************************************************************)
(* C19.  In every reachable state the comparison slider position is a      *)
(* number in [0, 100], for every pointer X and every container width the   *)
(* move handler observes.                                                  *)
(***************************************************************************)
C19_SliderInRange ==
  /\ compareSliderPosition[1] = "finite"
  /\ 0 <= compareSliderPosition[2] /\ compareSliderPosition[2] <= 100

(***************************************************************************)
(* C20.  The drag session has two states: a mouse-down or touch-start on   *)
(* the handle enters dragging, a mouse-up or touch-end returns to idle,    *)
(* and a pointer move changes the slider position only while dragging and  *)
(* changes nothing while idle.                                             *)
(***************************************************************************)
C20_DragSession ==
  [][/\ isDraggingComparer \in BOOLEAN /\ isDraggingComparer' \in BOOLEAN
     /\ handleComparerMouseDown \/ handleComparerTouchStart =>
          isDraggingComparer'
     /\ handleComparerActionEnd => ~isDraggingComparer'
     /\ isDraggingComparer' # isDraggingComparer =>
          \/ handleComparerMouseDown \/ handleComparerTouchStart
          \/ handleComparerActionEnd
     /\ handleComparerMouseMove \/ handleComparerTouchMove =>
          /\ compareSliderPosition' # compareSliderPosition =>
               isDraggingComparer
          /\ ~isDraggingComparer => UNCHANGED vars
          /\ isDraggingComparer' = isDraggingComparer]_vars

\* Idle again after a drag that moved the slider off its centre.
C20_Witness ==
  /\ ~isDraggingComparer
  /\ isCompareModeActive
  /\ compareSliderPosition = Finite(75)

(***************************************************************************)
(* C21.  Every step that takes compare mode from inactive to active sets   *)
(* the slider position to 50, whatever the position was before.            *)
(***************************************************************************)
C21_ActivationCentresSlider ==
  [][~isCompareModeActive /\ isCompareModeActive' =>
       compareSliderPosition' = Finite(50)]_vars

\* Compare mode was left with the slider off its centre and can be entered
\* again.
C21_Witness ==
  /\ EditorShown /\ canUndo /\ ~isCompareModeActive /\ EventLoopFree
  /\ compareSliderPosition = Finite(25)

(***************************************************************************)
(* C22.  In every reachable state, compare mode active implies that the    *)
(* history holds at least 2 versions and the cursor is above 0.            *)
(***************************************************************************)
C22_CompareNeedsTwoVersions ==
  isCompareModeActive => Len(history) >= 2 /\ historyIndex > 0

\* Compare mode active while a request submitted before it is in flight.
C22_Witness ==
  /\ isCompareModeActive /\ requests # {} /\ isLoading
  /\ Len(history) = 2 /\ historyIndex = 1

C24_HotspotCleared ==
  [][\/ ClickUndo /\ historyIndex' # historyIndex
     \/ ClickRedo /\ historyIndex' # historyIndex
     \/ EditCommitted
     => editHotspot' = NoHotspot]_vars

(***************************************************************************)
(* C25.  handleGenerate called without current image, with a prompt that   *)
(* is empty after trimming, or without hotspot submits no request, sets    *)
(* the message of the first check that fails (in that order) and leaves    *)
(* history, historyIndex, the hotspot and isLoading unchanged.             *)
(***************************************************************************)
C25_GenerateValidates ==
  [][handleGenerate =>
       LET message ==
             IF ~HasCurrentImage THEN <<"No image loaded to edit.">>
             ELSE IF Trim(prompt) = ""
             THEN <<"Please enter a description for your edit.">>
             ELSE <<"Please click on the image to select an area to edit.">>
       IN (~HasCurrentImage \/ Trim(prompt) = "" \/ editHotspot = NoHotspot)
          => /\ requests' = requests
             /\ error' = message
             /\ UNCHANGED <<history, historyIndex, editHotspot,
                            displayHotspot, isLoading>>]_vars

\* Refused for the missing hotspot only: an image and a prompt are there.
C25_Witness ==
  /\ error = <<"Please click on the image to select an area to edit.">>
  /\ HasCurrentImage /\ Trim(prompt) # "" /\ editHotspot = NoHotspot
  /\ requests = {} /\ ~isLoading

(***************************************************************************)
(* C26.  At most one generation request or batch run is outstanding at any *)
(* time: isLoading is true while one is, and while isLoading is true no    *)
(* step starts another single-image edit, whisk or batch run.              *)
(***************************************************************************)
C26_OneOutstanding ==
  /\ [](/\ Cardinality(requests) + Cardinality(batchRuns) <= 1
        /\ requests # {} \/ batchRuns # {} => isLoading)
  /\ [][isLoading =>
          /\ Cardinality(requests') <= Cardinality(requests)
          /\ Cardinality(batchRuns') <= Cardinality(batchRuns)]_vars

\* An edit is in flight while the Adjust tab, with its buttons, is shown.
C26_Witness ==
  /\ isLoading /\ Cardinality(requests) = 1 /\ batchRuns = {}
  /\ EditorShown /\ activeTab = "adjust" /\ ~isCompareModeActive
  /\ \E r \in requests : r.op = "extend"

\* Every slot of processedBatchImages is null (an empty list included).
AllSlotsNull ==
  \A i \in 1..Len(processedBatchImages) : processedBatchImages[i] = NoFile

\* The step starts a zip holding one entry per non-null slot and no other.
StartsArchiveOfNonNullSlots ==
  /\ archive'.state = "generating"
  /\ NoFile \notin archive'.entries
  /\ \A i \in 1..Len(processedBatchImages) :
       processedBatchImages[i] # NoFile
         => processedBatchImages[i] \in archive'.entries
  /\ Cardinality(archive'.entries)
       = Cardinality({i \in 1..Len(processedBatchImages) :
                        processedBatchImages[i] # NoFile})

\* What handleDownloadAll does before its await, in both cases.
DownloadAllStep ==
  handleDownloadAll =>
    IF AllSlotsNull
    THEN /\ archive' = archive
         /\ error' = <<"No processed images to download.">>
    ELSE StartsArchiveOfNonNullSlots

\* The zip that was being generated is saved with the entries it had.
ArchiveSaved ==
  /\ archive'.state = "saved"
  /\ archive'.entries = archive.entries

(***************************************************************************)
(* C27, as stated.  handleDownloadAll: if every slot of                    *)
(* processedBatchImages is null it produces no archive and sets the error  *)
(* "No processed images to download."; otherwise it produces one archive   *)
(* that contains exactly one entry per non-null slot and none for the null *)
(* slots, so every zip it starts ends up saved.                            *)
(***************************************************************************)
C27_DownloadAllAlwaysArchives ==
  [][/\ DownloadAllStep
     /\ archive.state = "generating" /\ archive' # archive
          => ArchiveSaved]_vars

(***************************************************************************)
(* C27, amended.  As above, except that the zip it starts is saved only if *)
(* its generation succeeds: if generation fails no archive is produced and *)
(* the error is "Could not create zip file.".                              *)
(***************************************************************************)
C27_DownloadAllArchivesUnlessZipFails ==
  [][/\ DownloadAllStep
     /\ archive.state = "generating" /\ archive' # archive
          => \/ ArchiveSaved
             \/ /\ archive' = NoArchive
                /\ error' = <<"Could not create zip file.">>]_vars

\* A batch with one image processed and one failed, saved as a zip of the
\* one processed image.
C27_Witness ==
  /\ archive.state = "saved"
  /\ Cardinality(archive.entries) = 1
  /\ Len(processedBatchImages) = 2
  /\ \E i \in 1..2 : processedBatchImages[i] = NoFile
  /\ \E i \in 1..2 :
       processedBatchImages[i] # NoFile
         /\ archive.entries = {processedBatchImages[i]}

\* The cursor handleUndo leaves, from cursor i.
UndoCursor(i) == IF i > 0 THEN i - 1 ELSE i

\* The cursor handleRedo leaves, from cursor i of the versions h.
RedoCursor(h, i) == IF i < Len(h) - 1 THEN i + 1 ELSE i

\* current(): the version at cursor i of h.
CurrentOf(h, i) == h[i + 1]

(***************************************************************************)
(* C28.  From any state with historyIndex > 0, an undo followed at once by *)
(* a redo returns the cursor and the current version to what they were and *)
(* leaves the version sequence unchanged: undo and redo move the cursor as *)
(* UndoCursor and RedoCursor say and keep the history, and RedoCursor      *)
(* undoes UndoCursor wherever the cursor is above 0.  With two versions    *)
(* [v0, B] and cursor 1, undo gives cursor 0 with v0 current and redo      *)
(* gives cursor 1 with B current.                                          *)
(***************************************************************************)
C28_UndoRedoRoundTrip ==
  /\ [][/\ handleUndo =>
             /\ historyIndex' = UndoCursor(historyIndex)
             /\ history' = history
        /\ handleRedo =>
             /\ historyIndex' = RedoCursor(history, historyIndex)
             /\ history' = history]_vars
  /\ [](historyIndex > 0 =>
          LET undone == UndoCursor(historyIndex)
              redone == RedoCursor(history, undone)
          IN /\ undone = historyIndex - 1
             /\ CurrentOf(history, undone) = history[historyIndex]
             /\ redone = historyIndex
             /\ CurrentOf(history, redone) = CurrentOf(history, historyIndex))

\* Two versions with the cursor back on the first: an undo has been made
\* from cursor 1 and the redo that returns to it is possible.
C28_Witness ==
  /\ Len(history) = 2 /\ historyIndex = 0
  /\ RedoCursor(history, historyIndex) = 1
  /\ CurrentOf(history, 0) # CurrentOf(history, 1)
  /\ requests = {} /\ editHotspot = NoHotspot

\* The continuation of whisk request r ran in this step.
WhiskAnswered(r) ==
  r \in requests /\ r.op = "whisk" /\ requests' = requests \ {r}

(***************************************************************************)
(* C29.  A successful whisk composite replaces the history by a fresh      *)
(* single-element history holding the composite, with cursor 0, and        *)
(* switches the view to the editor; a failed whisk composite leaves        *)
(* history, cursor and view mode unchanged, sets an error message and      *)
(* clears isLoading.                                                       *)
(***************************************************************************)
C29_WhiskSeedsOrKeeps ==
  [][\A r \in requests :
       /\ ResponseSuccess /\ WhiskAnswered(r) =>
            /\ Len(history') = 1
            /\ history'[1] \notin Range(history)
            /\ historyIndex' = 0
            /\ viewMode' = "editor"
       /\ ResponseFailure /\ WhiskAnswered(r) =>
            /\ UNCHANGED <<history, historyIndex, viewMode>>
            /\ error' # NoError
            /\ isLoading' = FALSE]_vars

\* A whisk composite has failed: still in the whisk view, nothing seeded.
C29_Witness ==
  /\ error = FailureMessage("whisk")
  /\ viewMode = "whisk" /\ history = <<>> /\ historyIndex = -1
  /\ ~isLoading /\ requests = {}

\* The types of the bounded set that begin with image/, listed one by one.
ImageTypes == {ImagePng, ImageJpeg, ImagePrefix}

\* Everything but the uploaders' own state.
appVars ==
  <<editorVars, batchVars, viewMode, isLoading, error, requests, batchRuns,
    comparerVars, gatewayVars, backdropVars, archive>>

(***************************************************************************)
(* C30, as stated.  ImageUploader passes a selected or dropped file to     *)
(* onFileChange only if the file's MIME type begins with image/: such a    *)
(* file becomes the uploader's file, and any other file is ignored without *)
(* any state change or error, the previously selected file being kept.     *)
(***************************************************************************)
C30_RejectedFileChangesNothing ==
  [][\A slot \in UploaderSlots, f \in OfferedFiles :
       onInputChange(slot, <<f>>) \/ onDrop(slot, <<f>>) =>
         IF f.type \in ImageTypes
         THEN uploaderFile' = [uploaderFile EXCEPT ![slot] = <<f>>]
         ELSE UNCHANGED vars]_vars

(***************************************************************************)
(* C30, amended.  As above, except that a drop ends the drag highlight of  *)
(* its uploader whatever the file is: a dropped file that is not an image  *)
(* changes nothing else, sets no error and leaves the selected file.       *)
(***************************************************************************)
C30_OnlyImagesAccepted ==
  [][\A slot \in UploaderSlots, f \in OfferedFiles :
       /\ onInputChange(slot, <<f>>) =>
            IF f.type \in ImageTypes
            THEN uploaderFile' = [uploaderFile EXCEPT ![slot] = <<f>>]
            ELSE UNCHANGED vars
       /\ onDrop(slot, <<f>>) =>
            /\ IF f.type \in ImageTypes
               THEN uploaderFile' = [uploaderFile EXCEPT ![slot] = <<f>>]
               ELSE UNCHANGED uploaderFile
            /\ UNCHANGED appVars
            /\ \A other \in UploaderSlots \ {slot} :
                 isDraggingOver'[other] = isDraggingOver[other]]_vars

\* All three uploaders hold an image and a drag hovers over the first: a
\* file that is not an image, dropped now, must leave the first one's file.
C30_Witness ==
  /\ viewMode = "whisk"
  /\ \A slot \in UploaderSlots :
       uploaderFile[slot] # NoFile /\ uploaderFile[slot][1].type \in ImageTypes
  /\ uploaderFile["subject"][1].type = ImageJpeg
  /\ isDraggingOver["subject"]
  /\ error = NoError

\* The types of the bounded set of blobs that begin with image/.
ImageBlobTypes == {ImagePng}

\* The URL texts that new URL() accepts.
AbsoluteUrls == {"https://cdn.example/bg.png", "https://cdn.example/"}

(***************************************************************************)
(* C31.  Loading a background image from a URL ends in exactly one of two  *)
(* outcomes, with isFetchingUrl false: after a successful fetch of content *)
(* whose type begins with image/, backgroundFile is set and urlError is    *)
(* null; after a fetch failure, a status that is not OK, content that is   *)
(* no image or a URL that does not parse, urlError is a non-empty message  *)
(* and backgroundFile is null.                                             *)
(***************************************************************************)
C31_UrlLoadEndsOneOfTwoWays ==
  [][\A f \in urlFetches, outcome \in FetchOutcomes :
       fetchSettles(f, outcome) =>
         /\ isFetchingUrl' = FALSE
         /\ IF /\ outcome.kind = "blob"
               /\ outcome.type \in ImageBlobTypes
               /\ f.url \in AbsoluteUrls
            THEN /\ uploaderFile'[BackgroundSlot] # NoFile
                 /\ urlError' = NoError
            ELSE /\ urlError' # NoError
                 /\ urlError'[2] # ""
                 /\ uploaderFile'[BackgroundSlot] = NoFile]_vars

\* A generation request or a batch run is outstanding.
Outstanding == requests # {} \/ batchRuns # {}

(***************************************************************************)
(* C32.  isLoading is true exactly while a generation request or a batch   *)
(* run is outstanding: it is true from the submission until that request   *)
(* or run settles, whatever the user does meanwhile (undo, redo, reset,    *)
(* compare toggle, Upload New), and, the gateway answering every call, it  *)
(* eventually becomes false; it is never true with nothing in flight.      *)
(***************************************************************************)
C32_LoadingWhileOutstanding ==
  /\ [](isLoading <=> Outstanding)
  /\ [][/\ ~Outstanding /\ Outstanding' => isLoading'
        /\ isLoading /\ ~isLoading' => Outstanding /\ ~Outstanding']_vars
  /\ (isLoading ~> ~isLoading)

\* An edit is pending on the start screen: Upload New was pressed while the
\* request was in flight, and isLoading is still true.
C32_Witness ==
  /\ isLoading /\ Cardinality(requests) = 1
  /\ viewMode = "start" /\ history = <<>>

\* Some invocation of some batch run has not settled.
InvocationUnsettled == \E run \in batchRuns : ~AllSettled(run)

\* The run's own replacement of the outputs: in the one step after all its
\* invocations have settled, with isBatchProcessingComplete set.
RunReplacesOutputs ==
  \E run \in batchRuns :
    /\ Completes(run)
    /\ DOMAIN processedBatchImages' = 1..Len(run.images)
    /\ isBatchProcessingComplete'

(***************************************************************************)
(* C33, as stated.  During a batch run processedBatchImages is not         *)
(* modified while any invocation is still unsettled: it keeps the value it *)
(* had when the run started, and is replaced in a single step only after   *)
(* all N invocations have settled, at which point                          *)
(* isBatchProcessingComplete becomes true.                                 *)
(***************************************************************************)
C33_OutputsKeptUntilAllSettled ==
  [][/\ InvocationUnsettled => processedBatchImages' = processedBatchImages
     /\ batchRuns # {} /\ processedBatchImages' # processedBatchImages
          => RunReplacesOutputs]_vars

(***************************************************************************)
(* C33, amended.  A batch run does not modify processedBatchImages while   *)
(* any of its invocations is unsettled: no settling invocation changes the *)
(* outputs or the completion flag, and the run replaces them in the single *)
(* step after all N have settled, setting isBatchProcessingComplete.  The  *)
(* only other changes while a run is in flight are Start Over, which       *)
(* empties the outputs, and a batch upload after it.                       *)
(***************************************************************************)
C33_RunPublishesOnlyAtCompletion ==
  [][/\ InvocationSucceeds \/ InvocationFails
          => UNCHANGED <<processedBatchImages, isBatchProcessingComplete>>
     /\ batchRuns # {} /\ processedBatchImages' # processedBatchImages
          => \/ RunReplacesOutputs
             \/ handleUploadNew /\ processedBatchImages' = <<>>
             \/ handleBatchUpload]_vars

\* One of two invocations has succeeded and the outputs are still the nulls
\* of the upload; the run is on the batch on screen.
C33_Witness ==
  /\ BatchShown /\ isLoading /\ ~isBatchProcessingComplete
  /\ Len(processedBatchImages) = 2
  /\ \A i \in 1..2 : processedBatchImages[i] = NoFile
  /\ \E run \in batchRuns :
       /\ OnCurrentBatch(run)
       /\ \E i, j \in 1..2 : run.outcome[i] = "ok" /\ run.outcome[j] = "pending"

(***************************************************************************)
(* C34.  The source-space hotspot and the display-space hotspot are set    *)
(* and cleared together: in every reachable state editHotspot is null if   *)
(* and only if displayHotspot is null, and a step sets a hotspot only when *)
(* the retouch tab is active and compare mode is inactive.                 *)
(***************************************************************************)
C34_HotspotsTogether ==
  /\ []((editHotspot = NoHotspot) <=> (displayHotspot = NoHotspot))
  /\ [][\/ editHotspot' # NoHotspot /\ editHotspot' # editHotspot
        \/ displayHotspot' # NoHotspot /\ displayHotspot' # displayHotspot
        => activeTab = "retouch" /\ ~isCompareModeActive]_vars

\* A click on an image shown at half its natural size: both hotspots are
\* set, the source-space one at twice the offset.
C34_Witness ==
  /\ displayHotspot # NoHotspot /\ editHotspot # NoHotspot
  /\ editHotspot # displayHotspot
  /\ activeTab = "retouch" /\ ~isCompareModeActive
  /\ Len(history) = 2 /\ historyIndex = 1

(***************************************************************************)
(* C35.  A drag session never outlives compare mode: whenever compare mode *)
(* is inactive the slider is idle (isDraggingComparer is false), and the   *)
(* slider position does not change in a step that begins and ends with    *)
(* compare mode inactive, also when compare mode was left in the middle of *)
(* a drag.                                                                 *)
(***************************************************************************)
C35_DragEndsWithCompare ==
  /\ [](~isCompareModeActive => ~isDraggingComparer)
  /\ [][~isCompareModeActive /\ ~isCompareModeActive'
          => compareSliderPosition' = compareSliderPosition]_vars

====
